---------------------------- MODULE Spec2Model ----------------------------
(***************************************************************************)
(* Quadcopter simulation: the rigid-body integrator (Quadcopter.py), the   *)
(* PID / cascaded controller (pid_controller.py) and the per-tick          *)
(* orchestration with its bounded history log (simulator.py).              *)
(*                                                                         *)
(* Numbers.  The program computes in binary64; the model computes in       *)
(* fixed point, every quantity an integer count of a fixed unit:           *)
(*   time                 ms          (dt, derivative_filter_tau)          *)
(*   length               mm          (x, y, z)                            *)
(*   velocity             mm/s        (vx, vy, vz)                         *)
(*   acceleration         mm/s^2      (g = 9810)                           *)
(*   mass                 kg                                               *)
(*   force                mN          (thrust, fx, fy, fz)                 *)
(*   angle                mrad        (roll, pitch, yaw; pi = 3142)        *)
(*   angular rate         mrad/s      (p, q, r)                            *)
(*   inertia              g*m^2       (Ixx = 10, Izz = 20)                 *)
(*   torque               uN*m                                             *)
(*   sin, cos             thousandths                                      *)
(* A product "rate * dt" is rate * dt / 1000 in these units.  Where the    *)
(* program rounds a quotient to the nearest binary64, the model rounds it  *)
(* to the nearest unit (RDiv).  NaN and infinities are not modelled.       *)
(***************************************************************************)
EXTENDS Integers, Sequences, FiniteSets, TLC

VARIABLES
    quad,            \* the Quadcopter instance: its state and control inputs
    ctrl,            \* the CascadedController: the state of its four PIDs
    z_ref, roll_ref, pitch_ref, yaw_ref,   \* QuadcopterSimulator setpoints
    sim_time,        \* QuadcopterSimulator.sim_time (ms)
    step_count,      \* QuadcopterSimulator.step_count
    logged_states,   \* QuadcopterSimulator.logged_states
    pid,             \* a PID instance of its own: its parameters and state
    held,            \* a snapshot that a caller got from get_state and kept
    fresh,           \* a second simulator, constructed when the first was
                     \* last reset and given the same calls since
    call,            \* the call that produced this state, with its arguments
    ops              \* number of calls made so far (bounds the exploration)

vars == <<quad, ctrl, z_ref, roll_ref, pitch_ref, yaw_ref,
          sim_time, step_count, logged_states, pid, held, fresh,
          call, ops>>

simvars == <<ctrl, z_ref, roll_ref, pitch_ref, yaw_ref,
             sim_time, step_count, logged_states>>

---------------------------------------------------------------------------
(* Units and arithmetic *)

\* ms per second: "rate * dt" with dt in ms
MS == 10 * 100

\* scale of Sin and Cos
TRIG == 10 * 100

Max(a, b) == IF a >= b THEN a ELSE b

Min(a, b) == IF a <= b THEN a ELSE b

Abs(a) == IF a < 0 THEN -a ELSE a

\* a / b rounded to the nearest unit, halves away from zero (b # 0)
RDiv(a, b) ==
    LET q == (Abs(a) + (Abs(b) \div 2)) \div Abs(b)
    IN  IF (a < 0) = (b < 0) THEN q ELSE -q

\* rate * dt, dt in ms
TimesDt(rate, dt) == RDiv(rate * dt, MS)

\* math.pi, in mrad
PI == 3142

\* math.pi / 2, in mrad (1571)
HALF_PI == (PI + 1) \div 2

\* math.sin on [0, pi], in thousandths (Bhaskara's rational approximation:
\* 16 a (pi - a) / (5 pi^2 - 4 a (pi - a)); exact at 0, pi/2 and pi)
SinArc(a) ==
    LET P == a * (PI - a)
        D == 5 * PI * PI - 4 * P
    IN  RDiv(160 * P, RDiv(D, 100))

\* math.sin for an angle in mrad: the angle reduced to [0, 2 pi)
Sin(a) ==
    LET m == a % (2 * PI)
    IN  IF m <= PI THEN SinArc(m) ELSE -SinArc(m - PI)

\* math.cos for an angle in mrad
Cos(a) == Sin(a + HALF_PI)

---------------------------------------------------------------------------
(* Quadcopter: parameters and limits *)

\* mass = 1.0 kg
MASS == 1

\* g = 9.81 m/s^2
G == 9810

\* Ixx = Iyy = 0.01, Izz = 0.02 kg m^2
IX == 10

IY == 10

IZ == 20

\* MAX_ANGLE = 1.57 rad
MAX_ANGLE == 1570

\* MAX_VEL = 50 m/s
MAX_VEL == 50000

\* MAX_POS = 500 m
MAX_POS == 500000

\* initial altitude 2.5 m
Z0 == 2500

\* Quadcopter.__init__(mass, length, Ixx, Iyy, Izz): the parameters are
\* stored as given, the state is at rest at z = 2.5 with the controls zero
Quadcopter(mass, Ixx, Iyy, Izz) ==
    [mass |-> mass, Ix |-> Ixx, Iy |-> Iyy, Iz |-> Izz,
     x |-> 0, y |-> 0, z |-> Z0,
     vx |-> 0, vy |-> 0, vz |-> 0,
     roll |-> 0, pitch |-> 0, yaw |-> 0,
     p |-> 0, q |-> 0, r |-> 0,
     torque_roll |-> 0, torque_pitch |-> 0, torque_yaw |-> 0,
     thrust |-> 0,
     history |-> <<>>]

\* Quadcopter() with the default parameters, as QuadcopterSimulator() and
\* main.py construct it
QuadInit == Quadcopter(MASS, IX, IY, IZ)

\* mutant: the requested thrust stored as given
StoredThrustUnfloored(thrust) == thrust

\* self.thrust = max(0.0, thrust)
StoredThrust(thrust) == Max(0, thrust)

\* Quadcopter.set_control
QuadSetControl(s, torque_roll, torque_pitch, torque_yaw, thrust) ==
    [s EXCEPT !.torque_roll = torque_roll,
              !.torque_pitch = torque_pitch,
              !.torque_yaw = torque_yaw,
              !.thrust = StoredThrust(thrust)]

---------------------------------------------------------------------------
(* Quadcopter.step, stage by stage *)

\* mutant: the rates of the other two axes enter each angular acceleration
\* (the gyroscopic term of Euler's equations)
UpdateRatesCoupled(s, dt) ==
    LET pdot == RDiv(s.torque_roll - (s.Iz - s.Iy) * RDiv(s.q * s.r, MS), s.Ix)
        qdot == RDiv(s.torque_pitch - (s.Ix - s.Iz) * RDiv(s.p * s.r, MS), s.Iy)
        rdot == RDiv(s.torque_yaw - (s.Iy - s.Ix) * RDiv(s.p * s.q, MS), s.Iz)
    IN  [s EXCEPT !.p = s.p + TimesDt(pdot, dt),
                  !.q = s.q + TimesDt(qdot, dt),
                  !.r = s.r + TimesDt(rdot, dt)]

\* angular accelerations and angular velocities
UpdateRates(s, dt) ==
    LET pdot == RDiv(s.torque_roll, s.Ix)
        qdot == RDiv(s.torque_pitch, s.Iy)
        rdot == RDiv(s.torque_yaw, s.Iz)
    IN  [s EXCEPT !.p = s.p + TimesDt(pdot, dt),
                  !.q = s.q + TimesDt(qdot, dt),
                  !.r = s.r + TimesDt(rdot, dt)]

\* Euler angles integrated from the new rates
UpdateAngles(s, dt) ==
    [s EXCEPT !.roll = s.roll + TimesDt(s.p, dt),
              !.pitch = s.pitch + TimesDt(s.q, dt),
              !.yaw = s.yaw + TimesDt(s.r, dt)]

\* mutant: only the upper limit applied
LimitAngleUpperOnly(a) == Min(MAX_ANGLE, a)

\* max(-MAX_ANGLE, min(MAX_ANGLE, a))
LimitAngle(a) == Max(-MAX_ANGLE, Min(MAX_ANGLE, a))

LimitAngles(s) ==
    [s EXCEPT !.roll = LimitAngle(s.roll), !.pitch = LimitAngle(s.pitch)]

\* while yaw > pi: yaw -= 2 pi.  The loop runs ceil((yaw - pi) / (2 pi))
\* times; its result is given in closed form
WrapDown(a) ==
    IF a > PI
    THEN a - 2 * PI * ((a - PI + 2 * PI - 1) \div (2 * PI))
    ELSE a

\* mutant: "if" for "while", a single turn added
WrapUpOnce(a) == IF a < -PI THEN a + 2 * PI ELSE a

\* while yaw < -pi: yaw += 2 pi.  The loop runs ceil((-pi - yaw) / (2 pi))
\* times
WrapUp(a) ==
    IF a < -PI
    THEN a + 2 * PI * ((-PI - a + 2 * PI - 1) \div (2 * PI))
    ELSE a

NormalizeYaw(a) == WrapUp(WrapDown(a))

\* mutant: gravity left out of the vertical force
ForceNoGravity(s) ==
    LET r33 == RDiv(Cos(s.pitch) * Cos(s.roll), TRIG)
    IN  [fx |-> 0, fy |-> 0, fz |-> RDiv(s.thrust * r33, TRIG)]

\* thrust rotated to the world frame (ZYX), gravity subtracted
Force(s) ==
    LET cr == Cos(s.roll)
        sr == Sin(s.roll)
        cp == Cos(s.pitch)
        sp == Sin(s.pitch)
        cy == Cos(s.yaw)
        sy == Sin(s.yaw)
        r13 == RDiv(RDiv(cy * sp, TRIG) * cr, TRIG) + RDiv(sy * sr, TRIG)
        r23 == RDiv(RDiv(sy * sp, TRIG) * cr, TRIG) - RDiv(cy * sr, TRIG)
        r33 == RDiv(cp * cr, TRIG)
    IN  [fx |-> RDiv(s.thrust * r13, TRIG),
         fy |-> RDiv(s.thrust * r23, TRIG),
         fz |-> RDiv(s.thrust * r33, TRIG) - s.mass * G]

\* linear accelerations and velocities
UpdateVelocities(s, dt) ==
    LET f == Force(s)
        ax == RDiv(f.fx, s.mass)
        ay == RDiv(f.fy, s.mass)
        az == RDiv(f.fz, s.mass)
    IN  [s EXCEPT !.vx = s.vx + TimesDt(ax, dt),
                  !.vy = s.vy + TimesDt(ay, dt),
                  !.vz = s.vz + TimesDt(az, dt)]

\* max(-MAX_VEL, min(MAX_VEL, v))
LimitVel(v) == Max(-MAX_VEL, Min(MAX_VEL, v))

LimitVelocities(s) ==
    [s EXCEPT !.vx = LimitVel(s.vx), !.vy = LimitVel(s.vy),
              !.vz = LimitVel(s.vz)]

UpdatePosition(s, dt) ==
    [s EXCEPT !.x = s.x + TimesDt(s.vx, dt),
              !.y = s.y + TimesDt(s.vy, dt),
              !.z = s.z + TimesDt(s.vz, dt)]

\* mutant: the floor stops the position and keeps the velocity
GroundKeepsVelocity(s) == IF s.z < 0 THEN [s EXCEPT !.z = 0] ELSE s

\* if z < 0: z = 0, vz = 0
Ground(s) == IF s.z < 0 THEN [s EXCEPT !.z = 0, !.vz = 0] ELSE s

\* max(-MAX_POS, min(MAX_POS, c))
LimitPos(c) == Max(-MAX_POS, Min(MAX_POS, c))

\* mutant: altitude limited from below only
LimitAltFloorOnly(c) == Max(0, c)

\* max(0, min(MAX_POS, z))
LimitAlt(c) == Max(0, Min(MAX_POS, c))

LimitPosition(s) ==
    [s EXCEPT !.x = LimitPos(s.x), !.y = LimitPos(s.y), !.z = LimitAlt(s.z)]

\* the attitude half of step: lines 80-104
StepAttitude(s, dt) ==
    LET a == LimitAngles(UpdateAngles(UpdateRates(s, dt), dt))
    IN  [a EXCEPT !.yaw = NormalizeYaw(a.yaw)]

\* mutant: the thrust is rotated by the angles as integrated, before the
\* clamp
StepToPositionForceBeforeClamp(s, dt) ==
    LET v == UpdateVelocities(UpdateAngles(UpdateRates(s, dt), dt), dt)
        a == StepAttitude(s, dt)
    IN  UpdatePosition(
            LimitVelocities([a EXCEPT !.vx = v.vx, !.vy = v.vy, !.vz = v.vz]),
            dt)

\* the state right after "Update position", before the ground check
StepToPosition(s, dt) ==
    UpdatePosition(LimitVelocities(UpdateVelocities(StepAttitude(s, dt), dt)), dt)

\* Quadcopter.step
QuadStepped(s, dt) == LimitPosition(Ground(StepToPosition(s, dt)))

\* Quadcopter.step on an instance of any parameters.  A zero inertia raises
\* ZeroDivisionError at "torque / I", before anything is assigned; a zero
\* mass raises it at "fx / self.mass", after the rates and angles have been
\* updated
QuadStep(s, dt) ==
    IF s.Ix = 0 \/ s.Iy = 0 \/ s.Iz = 0
    THEN [quad |-> s, raised |-> TRUE]
    ELSE IF s.mass = 0
         THEN [quad |-> StepAttitude(s, dt), raised |-> TRUE]
         ELSE [quad |-> QuadStepped(s, dt), raised |-> FALSE]

\* Quadcopter.get_state: a fresh dictionary of the sixteen values
GetState(s) ==
    [x |-> s.x, y |-> s.y, z |-> s.z,
     vx |-> s.vx, vy |-> s.vy, vz |-> s.vz,
     roll |-> s.roll, pitch |-> s.pitch, yaw |-> s.yaw,
     p |-> s.p, q |-> s.q, r |-> s.r,
     thrust |-> s.thrust,
     torque_roll |-> s.torque_roll,
     torque_pitch |-> s.torque_pitch,
     torque_yaw |-> s.torque_yaw]

\* mutant: get_state hands out the live state instead of a copy
SnapshotAliased(s) == [alias |-> TRUE, val |-> GetState(s)]

\* the object returned by get_state: a new dict holding the values (floats)
\* of the moment of the call, sharing nothing with the Quadcopter.  alias
\* says whether reading the object later reads the live state instead
Snapshot(s) == [alias |-> FALSE, val |-> GetState(s)]

\* what a holder of a snapshot reads from it while the Quadcopter is s
Read(snapshot, s) == IF snapshot.alias THEN GetState(s) ELSE snapshot.val

\* mutant: reset leaves the angular rates as they were
QuadResetKeepsRates(s) ==
    [s EXCEPT !.x = 0, !.y = 0, !.z = Z0,
              !.vx = 0, !.vy = 0, !.vz = 0,
              !.roll = 0, !.pitch = 0, !.yaw = 0,
              !.history = <<>>]

\* Quadcopter.reset
QuadReset(s) ==
    [s EXCEPT !.x = 0, !.y = 0, !.z = Z0,
              !.vx = 0, !.vy = 0, !.vz = 0,
              !.roll = 0, !.pitch = 0, !.yaw = 0,
              !.p = 0, !.q = 0, !.r = 0,
              !.history = <<>>]

---------------------------------------------------------------------------
(* PID.  error is in mm (altitude) or mrad (attitude), the output in mN or
   uN*m; integral is kept in error-units * ms, so that "error * dt" is exact
   and ki applies per second; the derivative is in error-units per second. *)

\* PID.__init__ / PID.reset: the controller state
PIDInit ==
    [integral |-> 0, prev_error |-> 0, filtered_derivative |-> 0,
     first_call |-> TRUE]

\* mutant: reset leaves the integral as it is
PIDResetKeepsIntegral(st) ==
    [st EXCEPT !.prev_error = 0, !.filtered_derivative = 0,
               !.first_call = TRUE]

PIDReset(st) ==
    [st EXCEPT !.integral = 0, !.prev_error = 0,
               !.filtered_derivative = 0, !.first_call = TRUE]

\* mutant: the integral is clamped from above only
IntegratedUpperOnly(cfg, st, error, dt) ==
    LET i == st.integral + error * dt
    IN  IF cfg.limited THEN Min(cfg.integrator_limit, i) ELSE i

\* the integral after "self.integral += error * dt" and the anti-windup clamp
Integrated(cfg, st, error, dt) ==
    LET i == st.integral + error * dt
    IN  IF cfg.limited
        THEN Max(-cfg.integrator_limit, Min(cfg.integrator_limit, i))
        ELSE i

\* (error - prev_error) / dt if dt > 0 else 0.0
RawDerivative(st, error, dt) ==
    IF dt > 0 THEN RDiv((error - st.prev_error) * MS, dt) ELSE 0

\* alpha * raw + (1 - alpha) * filtered, alpha = dt / (dt + tau)
Filtered(cfg, st, raw, dt) ==
    RDiv(dt * raw + cfg.derivative_filter_tau * st.filtered_derivative,
         dt + cfg.derivative_filter_tau)

\* the end of PID.update with the integral and the derivative in hand: the
\* new state, the output and its derivative term
PIDResult(cfg, st, error, integral, filtered, derivative) ==
    [st |-> [st EXCEPT !.integral = integral, !.first_call = FALSE,
                       !.filtered_derivative = filtered,
                       !.prev_error = error],
     out |-> cfg.kp * error + RDiv(cfg.ki * integral, MS)
               + cfg.kd * derivative,
     d_term |-> cfg.kd * derivative, raised |-> FALSE]

\* the ZeroDivisionError of dt / (dt + tau): the integral is updated, the
\* rest of the state is as it was, nothing is returned
PIDRaised(st, integral) ==
    [st |-> [st EXCEPT !.integral = integral],
     out |-> 0, d_term |-> 0, raised |-> TRUE]

\* the derivative branch of a call that is not the first
PIDDerivative(cfg, st, error, dt, integral, raw) ==
    IF cfg.derivative_filter_tau > 0
    THEN IF dt + cfg.derivative_filter_tau = 0
         THEN PIDRaised(st, integral)
         ELSE PIDResult(cfg, st, error, integral,
                        Filtered(cfg, st, raw, dt), Filtered(cfg, st, raw, dt))
    ELSE PIDResult(cfg, st, error, integral, st.filtered_derivative, raw)

\* mutant: the derivative branch is taken on the first call too
PIDUpdateDerivativeAtOnce(cfg, st, error, dt) ==
    PIDDerivative(cfg, st, error, dt, Integrated(cfg, st, error, dt),
                  RawDerivative(st, error, dt))

\* PID.update
PIDUpdate(cfg, st, error, dt) ==
    IF st.first_call
    THEN PIDResult(cfg, st, error, Integrated(cfg, st, error, dt),
                   st.filtered_derivative, 0)
    ELSE PIDDerivative(cfg, st, error, dt, Integrated(cfg, st, error, dt),
                       RawDerivative(st, error, dt))

---------------------------------------------------------------------------
(* CascadedController *)

\* alt_pid: kp = 10.0, ki = 2.0, kd = 5.0, integrator_limit = 2.5 m s,
\* derivative_filter_tau = 0.02 s
AltPid ==
    [kp |-> 10, ki |-> 2, kd |-> 5, limited |-> TRUE,
     integrator_limit |-> 2500000, derivative_filter_tau |-> 20]

\* roll_pid and pitch_pid: kp = 2.0, ki = 0.1, kd = 1.0,
\* integrator_limit = 0.1 rad s, derivative_filter_tau = 0.08 s
\* (N m per rad = 1000 uN m per mrad)
RollPid ==
    [kp |-> 2000, ki |-> 100, kd |-> 1000, limited |-> TRUE,
     integrator_limit |-> 100000, derivative_filter_tau |-> 80]

PitchPid ==
    [kp |-> 2000, ki |-> 100, kd |-> 1000, limited |-> TRUE,
     integrator_limit |-> 100000, derivative_filter_tau |-> 80]

\* yaw_pid: kp = 1.0, ki = 0.05, kd = 0.5, integrator_limit = 0.05 rad s,
\* derivative_filter_tau = 0.08 s
YawPid ==
    [kp |-> 1000, ki |-> 50, kd |-> 500, limited |-> TRUE,
     integrator_limit |-> 50000, derivative_filter_tau |-> 80]

\* CascadedController.__init__
CtrlInit ==
    [alt_pid |-> PIDInit, roll_pid |-> PIDInit,
     pitch_pid |-> PIDInit, yaw_pid |-> PIDInit]

\* mutant: reset leaves the yaw PID as it is
CtrlResetSkipsYaw(c) ==
    [alt_pid |-> PIDReset(c.alt_pid), roll_pid |-> PIDReset(c.roll_pid),
     pitch_pid |-> PIDReset(c.pitch_pid), yaw_pid |-> c.yaw_pid]

\* CascadedController.reset
CtrlReset(c) ==
    [alt_pid |-> PIDReset(c.alt_pid), roll_pid |-> PIDReset(c.roll_pid),
     pitch_pid |-> PIDReset(c.pitch_pid), yaw_pid |-> PIDReset(c.yaw_pid)]

\* mutant: the altitude error without the velocity damping
AltitudeErrorUndamped(zref, z_actual, vz_actual) == zref - z_actual

\* the error given to alt_pid: z_err - 0.2 * vz_actual
AltitudeError(zref, z_actual, vz_actual) ==
    (zref - z_actual) - RDiv(2 * vz_actual, 10)

\* mutant: the thrust is the PID output alone, without the hover feedforward
AltitudeResultNoFeedforward(c, u) ==
    [ctrl |-> [c EXCEPT !.alt_pid = u.st],
     thrust |-> u.out, raised |-> u.raised]

\* thrust = mass * g + alt_cmd, with the updated alt_pid
AltitudeResult(c, u) ==
    [ctrl |-> [c EXCEPT !.alt_pid = u.st],
     thrust |-> MASS * G + u.out, raised |-> u.raised]

\* update_altitude
UpdateAltitude(c, zref, z_actual, vz_actual, dt) ==
    AltitudeResult(c, PIDUpdate(AltPid, c.alt_pid,
                                AltitudeError(zref, z_actual, vz_actual), dt))

\* update_attitude ended by an update that raised
AttitudeRaised(c) ==
    [ctrl |-> c, raised |-> TRUE,
     torque_roll |-> 0, torque_pitch |-> 0, torque_yaw |-> 0]

\* update_attitude from the yaw_pid update on
AttitudeYaw(c, torque_roll, torque_pitch, uy) ==
    IF uy.raised
    THEN AttitudeRaised([c EXCEPT !.yaw_pid = uy.st])
    ELSE [ctrl |-> [c EXCEPT !.yaw_pid = uy.st], raised |-> FALSE,
          torque_roll |-> torque_roll, torque_pitch |-> torque_pitch,
          torque_yaw |-> uy.out]

\* update_attitude from the pitch_pid update on
AttitudePitch(c, torque_roll, up, yaw_err, dt) ==
    IF up.raised
    THEN AttitudeRaised([c EXCEPT !.pitch_pid = up.st])
    ELSE AttitudeYaw([c EXCEPT !.pitch_pid = up.st], torque_roll, up.out,
                     PIDUpdate(YawPid, c.yaw_pid, yaw_err, dt))

\* update_attitude from the roll_pid update on
AttitudeRoll(c, ur, pitch_err, yaw_err, dt) ==
    IF ur.raised
    THEN AttitudeRaised([c EXCEPT !.roll_pid = ur.st])
    ELSE AttitudePitch([c EXCEPT !.roll_pid = ur.st], ur.out,
                       PIDUpdate(PitchPid, c.pitch_pid, pitch_err, dt),
                       yaw_err, dt)

\* mutant: the yaw error is taken along the shorter way round
UpdateAttitudeShortestYaw(c, rollref, pitchref, yawref, st, dt) ==
    AttitudeRoll(c, PIDUpdate(RollPid, c.roll_pid, rollref - st.roll, dt),
                 pitchref - st.pitch, NormalizeYaw(yawref - st.yaw), dt)

\* update_attitude: the errors are the plain differences ref - actual;
\* roll_pid, pitch_pid and yaw_pid are updated in this order
UpdateAttitude(c, rollref, pitchref, yawref, st, dt) ==
    AttitudeRoll(c, PIDUpdate(RollPid, c.roll_pid, rollref - st.roll, dt),
                 pitchref - st.pitch, yawref - st.yaw, dt)

---------------------------------------------------------------------------
(* QuadcopterSimulator *)

\* "if self.step_count % 4 == 0"
LOG_EVERY == 4

\* "if len(self.logged_states) > 5000"
HISTORY_CAP == 5000

\* mutant: the newest entry is dropped on overflow (pop() for pop(0))
LoggedDropsNewest(log, count, time, snapshot) ==
    IF count % LOG_EVERY = 0
    THEN LET appended == Append(log, <<time, snapshot>>)
         IN  IF Len(appended) > HISTORY_CAP
             THEN SubSeq(appended, 1, Len(appended) - 1)
             ELSE appended
    ELSE log

\* mutant: the log is appended on every step
LoggedEveryStep(log, count, time, snapshot) ==
    LET appended == Append(log, <<time, snapshot>>)
    IN  IF Len(appended) > HISTORY_CAP THEN Tail(appended) ELSE appended

\* logged_states after a step that ended with this count, time and snapshot
Logged(log, count, time, snapshot) ==
    IF count % LOG_EVERY = 0
    THEN LET appended == Append(log, <<time, snapshot>>)
         IN  IF Len(appended) > HISTORY_CAP THEN Tail(appended) ELSE appended
    ELSE log

\* a step that a PID update ended with an error: the controller keeps what
\* the updates before the error did, nothing else has changed
SimRaised(qd, c, time, count, log, thrust) ==
    [quad |-> qd, ctrl |-> c, sim_time |-> time, step_count |-> count,
     logged_states |-> log, thrust |-> thrust, raised |-> TRUE]

\* the step from "Update simulation time" on
SimAdvanced(stepped, c, time, count, log, thrust) ==
    [quad |-> stepped, ctrl |-> c, sim_time |-> time,
     step_count |-> count,
     logged_states |-> Logged(log, count, time, GetState(stepped)),
     thrust |-> thrust, raised |-> FALSE]

\* mutant: the model is integrated before the commands are applied
SimAppliedAfterIntegration(qd, att, thrust, time, count, log, dt) ==
    IF att.raised
    THEN SimRaised(qd, att.ctrl, time, count, log, thrust)
    ELSE SimAdvanced(
             QuadSetControl(QuadStepped(qd, dt), att.torque_roll,
                            att.torque_pitch, att.torque_yaw, thrust),
             att.ctrl, time + dt, count + 1, log, thrust)

\* the step from set_control on
SimApplied(qd, att, thrust, time, count, log, dt) ==
    IF att.raised
    THEN SimRaised(qd, att.ctrl, time, count, log, thrust)
    ELSE SimAdvanced(
             QuadStepped(QuadSetControl(qd, att.torque_roll, att.torque_pitch,
                                        att.torque_yaw, thrust), dt),
             att.ctrl, time + dt, count + 1, log, thrust)

\* the step from the attitude loops on
SimControlled(qd, alt, rollref, pitchref, yawref, time, count, log, dt) ==
    IF alt.raised
    THEN SimRaised(qd, alt.ctrl, time, count, log, 0)
    ELSE SimApplied(qd,
                    UpdateAttitude(alt.ctrl, rollref, pitchref, yawref,
                                   GetState(qd), dt),
                    alt.thrust, time, count, log, dt)

\* QuadcopterSimulator.step on the simulator's fields: the control commands
\* from the snapshot before integration, set_control, Quadcopter.step, the
\* counters and the log
SimStepped(qd, c, zref, rollref, pitchref, yawref, time, count, log, dt) ==
    SimControlled(qd,
                  UpdateAltitude(c, zref, GetState(qd).z, GetState(qd).vz, dt),
                  rollref, pitchref, yawref, time, count, log, dt)

\* mutant: the errors are taken as actual - setpoint
ExtendedStateErrorsReversed(qd, zref, rollref, pitchref, yawref, time, count) ==
    [x |-> qd.x, y |-> qd.y, z |-> qd.z,
     vx |-> qd.vx, vy |-> qd.vy, vz |-> qd.vz,
     roll |-> qd.roll, pitch |-> qd.pitch, yaw |-> qd.yaw,
     p |-> qd.p, q |-> qd.q, r |-> qd.r,
     thrust |-> qd.thrust, torque_roll |-> qd.torque_roll,
     torque_pitch |-> qd.torque_pitch, torque_yaw |-> qd.torque_yaw,
     z_ref |-> zref, roll_ref |-> rollref,
     pitch_ref |-> pitchref, yaw_ref |-> yawref,
     z_err |-> qd.z - zref, roll_err |-> qd.roll - rollref,
     pitch_err |-> qd.pitch - pitchref, yaw_err |-> qd.yaw - yawref,
     sim_time |-> time, step_count |-> count]

\* QuadcopterSimulator.get_extended_state: the dict of get_state with the
\* setpoints, the errors, sim_time and step_count added to it
ExtendedState(qd, zref, rollref, pitchref, yawref, time, count) ==
    [x |-> qd.x, y |-> qd.y, z |-> qd.z,
     vx |-> qd.vx, vy |-> qd.vy, vz |-> qd.vz,
     roll |-> qd.roll, pitch |-> qd.pitch, yaw |-> qd.yaw,
     p |-> qd.p, q |-> qd.q, r |-> qd.r,
     thrust |-> qd.thrust, torque_roll |-> qd.torque_roll,
     torque_pitch |-> qd.torque_pitch, torque_yaw |-> qd.torque_yaw,
     z_ref |-> zref, roll_ref |-> rollref,
     pitch_ref |-> pitchref, yaw_ref |-> yawref,
     z_err |-> zref - GetState(qd).z,
     roll_err |-> rollref - GetState(qd).roll,
     pitch_err |-> pitchref - GetState(qd).pitch,
     yaw_err |-> yawref - GetState(qd).yaw,
     sim_time |-> time, step_count |-> count]

\* QuadcopterSimulator(): the fields of a simulator just constructed; ret
\* and raised are what its last step returned (nothing yet), on says
\* whether this simulator is in use
NewSimulator ==
    [on |-> FALSE, quad |-> QuadInit, ctrl |-> CtrlInit,
     z_ref |-> Z0, roll_ref |-> 0, pitch_ref |-> 0, yaw_ref |-> 0,
     sim_time |-> 0, step_count |-> 0, logged_states |-> <<>>,
     ret |-> GetState(QuadInit), raised |-> FALSE]

\* set_references on a simulator held in a record
WithReferences(sim, r) ==
    [sim EXCEPT !.roll_ref = r[1], !.pitch_ref = r[2],
                !.yaw_ref = r[3], !.z_ref = r[4]]

\* step(dt) on a simulator held in a record, n being SimStepped of its fields
WithStep(sim, n) ==
    [sim EXCEPT !.quad = n.quad, !.ctrl = n.ctrl,
                !.sim_time = n.sim_time, !.step_count = n.step_count,
                !.logged_states = n.logged_states,
                !.ret = GetState(n.quad), !.raised = n.raised]

---------------------------------------------------------------------------
(* A Quadcopter driven directly: set_control, step and reset in any order *)

\* number of calls explored
MaxOps == 6

\* (torque_roll, torque_pitch, torque_yaw, thrust) given to set_control:
\* free fall, yaw torques that turn by exactly pi in a 1 s step, torques
\* that saturate roll and pitch, thrust below zero, at hover and far above
Controls ==
    { <<0, 0, 0, 0>>,
      <<0, 0, -62840, 9810>>,
      <<0, 0, 62840, -5000>>,
      <<20000, 0, 0, 100000>>,
      <<-20000, 20000, 0, 100000>>,
      <<0, 0, 0, 100000>> }

\* dt given to Quadcopter.step (ms)
Dts == {50, 1000, 10000}

Init ==
    /\ quad = QuadInit
    /\ ctrl = CtrlInit
    /\ z_ref = Z0
    /\ roll_ref = 0
    /\ pitch_ref = 0
    /\ yaw_ref = 0
    /\ sim_time = 0
    /\ step_count = 0
    /\ logged_states = <<>>
    /\ pid = [cfg |-> AltPid, st |-> PIDInit]
    /\ held = Snapshot(QuadInit)
    /\ fresh = NewSimulator
    /\ call = [op |-> "init", dt |-> 0, thrust |-> 0, raised |-> FALSE]
    /\ ops = 0

SetControlCall(c) ==
    /\ quad' = QuadSetControl(quad, c[1], c[2], c[3], c[4])
    /\ call' = [op |-> "set_control", dt |-> 0, thrust |-> c[4],
                raised |-> FALSE]
    /\ ops' = ops + 1
    /\ UNCHANGED simvars
    /\ UNCHANGED <<pid, held, fresh>>

StepCall(dt) ==
    /\ quad' = QuadStepped(quad, dt)
    /\ call' = [op |-> "step", dt |-> dt, thrust |-> 0,
                raised |-> FALSE]
    /\ ops' = ops + 1
    /\ UNCHANGED simvars
    /\ UNCHANGED <<pid, held, fresh>>

ResetCall ==
    /\ quad' = QuadReset(quad)
    /\ call' = [op |-> "reset", dt |-> 0, thrust |-> 0,
                raised |-> FALSE]
    /\ ops' = ops + 1
    /\ UNCHANGED simvars
    /\ UNCHANGED <<pid, held, fresh>>

SetControl(c) == ops < MaxOps /\ SetControlCall(c)

Step(dt) == ops < MaxOps /\ StepCall(dt)

Reset == ops < MaxOps /\ ResetCall

Next ==
    \/ \E c \in Controls : SetControl(c)
    \/ \E dt \in Dts : Step(dt)
    \/ Reset

Spec == Init /\ [][Next]_vars

---------------------------------------------------------------------------
(* A QuadcopterSimulator driven through set_references, step and reset *)

\* number of calls explored
MaxSimOps == 6

\* (roll_ref, pitch_ref, yaw_ref, z_ref) given to set_references: hover,
\* a descent far below the vehicle, a climb with a turn past the yaw wrap
Refs ==
    { <<0, 0, 0, 2500>>,
      <<0, 0, 0, 500>>,
      <<300, -300, 3000, 5000>> }

\* dt given to QuadcopterSimulator.step (ms)
SimDts == {50, 200}

SetReferencesCall(r) ==
    /\ roll_ref' = r[1]
    /\ pitch_ref' = r[2]
    /\ yaw_ref' = r[3]
    /\ z_ref' = r[4]
    /\ call' = [op |-> "set_references", dt |-> 0, thrust |-> 0,
                raised |-> FALSE]
    /\ ops' = ops + 1
    /\ UNCHANGED <<quad, ctrl, sim_time, step_count, logged_states>>
    /\ UNCHANGED <<pid, held, fresh>>

\* simulator.step(dt); the call records dt, the thrust that the altitude
\* loop asked for, whether a PID update raised, and the returned snapshot
\* (self.quad.get_state() after the integration)
SimStepCall(dt) ==
    /\ LET n == SimStepped(quad, ctrl, z_ref, roll_ref, pitch_ref, yaw_ref,
                           sim_time, step_count, logged_states, dt)
       IN  /\ quad' = n.quad
           /\ ctrl' = n.ctrl
           /\ sim_time' = n.sim_time
           /\ step_count' = n.step_count
           /\ logged_states' = n.logged_states
           /\ call' = [op |-> "sim_step", dt |-> dt, thrust |-> n.thrust,
                       raised |-> n.raised, ret |-> GetState(n.quad)]
    /\ ops' = ops + 1
    /\ UNCHANGED <<z_ref, roll_ref, pitch_ref, yaw_ref>>
    /\ UNCHANGED <<pid, held, fresh>>

\* mutant: reset puts the setpoints back to the values of construction
SimResetCallRestoresSetpoints ==
    /\ quad' = QuadReset(quad)
    /\ ctrl' = CtrlReset(ctrl)
    /\ sim_time' = 0
    /\ step_count' = 0
    /\ logged_states' = <<>>
    /\ z_ref' = Z0 /\ roll_ref' = 0 /\ pitch_ref' = 0 /\ yaw_ref' = 0
    /\ call' = [op |-> "sim_reset", dt |-> 0, thrust |-> 0, raised |-> FALSE]
    /\ ops' = ops + 1
    /\ UNCHANGED <<pid, held, fresh>>

\* simulator.reset()
SimResetCall ==
    /\ quad' = QuadReset(quad)
    /\ ctrl' = CtrlReset(ctrl)
    /\ sim_time' = 0
    /\ step_count' = 0
    /\ logged_states' = <<>>
    /\ call' = [op |-> "sim_reset", dt |-> 0, thrust |-> 0, raised |-> FALSE]
    /\ ops' = ops + 1
    /\ UNCHANGED <<z_ref, roll_ref, pitch_ref, yaw_ref>>
    /\ UNCHANGED <<pid, held, fresh>>

SetReferences(r) == ops < MaxSimOps /\ SetReferencesCall(r)

SimStep(dt) == ops < MaxSimOps /\ SimStepCall(dt)

SimReset == ops < MaxSimOps /\ SimResetCall

NextSim ==
    \/ \E r \in Refs : SetReferences(r)
    \/ \E dt \in SimDts : SimStep(dt)
    \/ SimReset

SpecSim == Init /\ [][NextSim]_vars

---------------------------------------------------------------------------
(* Free fall: a new Quadcopter stepped with the controls never set *)

\* number of steps explored
MaxFall == 6

\* dt given to Quadcopter.step (ms); steps of 80 and 460 ms end at z = 0
FallDts == {50, 80, 200, 460}

Fall(dt) == ops < MaxFall /\ StepCall(dt)

NextFall == \E dt \in FallDts : Fall(dt)

SpecFall == Init /\ [][NextFall]_vars

---------------------------------------------------------------------------
(* A simulator that has hovered long enough to fill its log.  With the
   default setpoints the first step(0.05) sets thrust = mass * g and zero
   torques, clears the four first_call flags and leaves everything else as
   constructed, and every later step repeats that state (HoverFixedPoint);
   after WarmSteps such steps the log holds HISTORY_CAP - 1 samples. *)

\* the Quadcopter in hover
HoverQuad == QuadSetControl(QuadInit, 0, 0, 0, MASS * G)

\* the controller in hover
HoverCtrl ==
    [alt_pid |-> [PIDInit EXCEPT !.first_call = FALSE],
     roll_pid |-> [PIDInit EXCEPT !.first_call = FALSE],
     pitch_pid |-> [PIDInit EXCEPT !.first_call = FALSE],
     yaw_pid |-> [PIDInit EXCEPT !.first_call = FALSE]]

\* dt of the hover steps (main.py: config.dt = 0.05)
WarmDt == 50

\* hover steps taken before the exploration starts
WarmSteps == LOG_EVERY * HISTORY_CAP - 2

\* a step(WarmDt) from construction reaches the hover state and a step from
\* the hover state stays in it
HoverFixedPoint ==
    LET first == SimStepped(QuadInit, CtrlInit, Z0, 0, 0, 0, 0, 0, <<>>, WarmDt)
        again == SimStepped(HoverQuad, HoverCtrl, Z0, 0, 0, 0, 0, 1, <<>>, WarmDt)
    IN  /\ first.quad = HoverQuad /\ first.ctrl = HoverCtrl
        /\ again.quad = HoverQuad /\ again.ctrl = HoverCtrl

InitWarm ==
    /\ quad = HoverQuad
    /\ ctrl = HoverCtrl
    /\ z_ref = Z0
    /\ roll_ref = 0
    /\ pitch_ref = 0
    /\ yaw_ref = 0
    /\ sim_time = WarmSteps * WarmDt
    /\ step_count = WarmSteps
    /\ logged_states =
           [k \in 1..(WarmSteps \div LOG_EVERY) |->
               <<k * LOG_EVERY * WarmDt, GetState(HoverQuad)>>]
    /\ pid = [cfg |-> AltPid, st |-> PIDInit]
    /\ held = Snapshot(QuadInit)
    /\ fresh = NewSimulator
    /\ call = [op |-> "sim_step", dt |-> WarmDt, thrust |-> MASS * G,
               raised |-> FALSE, ret |-> GetState(HoverQuad)]
    /\ ops = 0

\* number of calls explored after the warm-up
MaxLogOps == 7

\* setpoints given to set_references
LogRefs == { <<0, 0, 0, 2500>>, <<300, -300, 3000, 5000>> }

\* dt given to QuadcopterSimulator.step (ms)
LogDts == {50, 200}

LogSetReferences(r) == ops < MaxLogOps /\ SetReferencesCall(r)

LogStep(dt) == ops < MaxLogOps /\ SimStepCall(dt)

LogReset == ops < MaxLogOps /\ SimResetCall

NextLog ==
    \/ \E r \in LogRefs : LogSetReferences(r)
    \/ \E dt \in LogDts : LogStep(dt)
    \/ LogReset

SpecLog == InitWarm /\ [][NextLog]_vars

---------------------------------------------------------------------------
(* Properties of the directly driven Quadcopter (Spec) *)

\* C1: in every state reached by set_control and step calls, roll and pitch
\* lie in [-MAX_ANGLE, MAX_ANGLE].
C1_RollPitchWithinMaxAngle ==
    /\ -MAX_ANGLE <= quad.roll /\ quad.roll <= MAX_ANGLE
    /\ -MAX_ANGLE <= quad.pitch /\ quad.pitch <= MAX_ANGLE

\* a step has saturated roll at the lower and pitch at the upper limit
C1_Saturated ==
    /\ call.op = "step"
    /\ quad.roll = -MAX_ANGLE /\ quad.p < 0
    /\ quad.pitch = MAX_ANGLE /\ quad.q > 0

\* C2 as stated: yaw lies in the half-open interval (-pi, pi], never -pi.
C2_YawHalfOpen == -PI < quad.yaw /\ quad.yaw <= PI

\* C2 amended: yaw lies in the closed interval [-pi, pi]; the lower end is
\* kept as it is when a step lands on it.
C2_YawClosed == -PI <= quad.yaw /\ quad.yaw <= PI

\* a step has left yaw at exactly -pi
C2_YawAtMinusPi == call.op = "step" /\ quad.yaw = -PI /\ quad.r < 0

\* C3: positions and velocities stay inside their limits: 0 <= z <= MAX_POS,
\* |x|, |y| <= MAX_POS, |vx|, |vy|, |vz| <= MAX_VEL.
C3_PositionVelocityWithinLimits ==
    /\ 0 <= quad.z /\ quad.z <= MAX_POS
    /\ Abs(quad.x) <= MAX_POS /\ Abs(quad.y) <= MAX_POS
    /\ Abs(quad.vx) <= MAX_VEL /\ Abs(quad.vy) <= MAX_VEL
    /\ Abs(quad.vz) <= MAX_VEL

\* a step has stopped x and y at the position limit with both velocities
\* at the velocity limit
C3_AtLimits ==
    /\ call.op = "step"
    /\ quad.x = -MAX_POS /\ quad.vx = -MAX_VEL
    /\ quad.y = MAX_POS /\ quad.vy = MAX_VEL

\* C5: a step whose position update gives z < 0 ends with z = 0 and vz = 0.
C5_GroundContactInelastic ==
    [][(call'.op = "step" /\ StepToPosition(quad, call'.dt).z < 0)
         => (quad'.z = 0 /\ quad'.vz = 0)]_vars

\* a step with the thrust off has ended on the ground, at rest
C5_Landed ==
    /\ call.op = "step"
    /\ quad.thrust = 0
    /\ quad.z = 0 /\ quad.vz = 0

\* the twelve kinematic values of a snapshot
Kinematic(st) ==
    <<st.x, st.y, st.z, st.vx, st.vy, st.vz,
      st.roll, st.pitch, st.yaw, st.p, st.q, st.r>>

\* C9: after reset the kinematic state read by get_state is position
\* (0, 0, 2.5) with velocities, angles and rates 0, and a second reset
\* changes nothing.
C9_ResetRestoresKinematics ==
    [][call'.op = "reset" =>
         /\ Kinematic(GetState(quad')) = <<0, 0, Z0, 0, 0, 0, 0, 0, 0, 0, 0, 0>>
         /\ (call.op = "reset" => GetState(quad') = GetState(quad))]_vars

\* reset has been called after at least a set_control and two more calls
C9_ResetAfterFlight ==
    /\ call.op = "reset"
    /\ ops >= 4
    /\ quad.thrust > 0 /\ quad.torque_roll # 0

\* C10: after reset get_state returns thrust 0 and the three torques 0.
C10_ResetClearsControls ==
    call.op = "reset" =>
        /\ GetState(quad).thrust = 0
        /\ GetState(quad).torque_roll = 0
        /\ GetState(quad).torque_pitch = 0
        /\ GetState(quad).torque_yaw = 0

---------------------------------------------------------------------------
(* Properties of the simulator (SpecSim), free fall (SpecFall) and the
   history log (SpecLog) *)

\* C4: the stored thrust is never negative: every snapshot has thrust >= 0,
\* also when the altitude loop asks for less than zero.
C4_ThrustNeverNegative ==
    /\ quad.thrust >= 0
    /\ GetState(quad).thrust >= 0
    /\ (call.op = "sim_step" /\ ~call.raised)
         => quad.thrust = Max(0, call.thrust)

\* a simulator step has asked for negative thrust (the PID output was below
\* -mass * g) and stored 0
C4_NegativeCommandFloored ==
    /\ call.op = "sim_step"
    /\ call.thrust < 0
    /\ quad.thrust = 0

\* C6 as stated: from rest with the controls at zero, each step takes
\* g * dt from vz until the vehicle is on the ground (z = 0), and from the
\* step that puts it there on, z = 0 and vz = 0 after every step.
C6_FreeFallSnapsAtGround ==
    [][call'.op = "step" =>
         IF quad'.z > 0
         THEN quad'.vz = quad.vz - TimesDt(G, call'.dt)
         ELSE quad'.z = 0 /\ quad'.vz = 0]_vars

\* C6 amended: each step whose position update leaves z >= 0 takes g * dt
\* from vz, also the step that lands on z = 0 exactly, which keeps its
\* velocity; a step whose position update gives z < 0 ends with z = 0 and
\* vz = 0, and so does every step after it.
C6_FreeFallSnapsBelowGround ==
    [][call'.op = "step" =>
         /\ IF StepToPosition(quad, call'.dt).z < 0
            THEN quad'.z = 0 /\ quad'.vz = 0
            ELSE quad'.vz = quad.vz - TimesDt(G, call'.dt)
         /\ (quad.z = 0 /\ quad.vz = 0) => (quad'.z = 0 /\ quad'.vz = 0)
         /\ (quad.z = 0 /\ quad.vz < 0) => (quad'.z = 0 /\ quad'.vz = 0)]_vars

\* a free-fall step has ended at z = 0 exactly, still moving down
C6_LandedExactly ==
    /\ call.op = "step"
    /\ quad.thrust = 0
    /\ quad.z = 0 /\ quad.vz < 0

\* C7: the log has min(5000, floor(step_count / 4)) entries, and the last
\* step appended its sample exactly when step_count is a multiple of 4.
C7_LogLengthAndSampling ==
    /\ Len(logged_states) <= HISTORY_CAP
    /\ Len(logged_states) = Min(HISTORY_CAP, step_count \div LOG_EVERY)
    /\ step_count > 0 =>
          ((step_count % LOG_EVERY = 0) <=>
              /\ Len(logged_states) > 0
              /\ logged_states[Len(logged_states)] = <<sim_time, GetState(quad)>>)

\* the log is full and has already evicted a sample
C7_FullAfterEviction ==
    /\ call.op = "sim_step"
    /\ Len(logged_states) = HISTORY_CAP
    /\ step_count \div LOG_EVERY > HISTORY_CAP

\* timestamps of the log in strictly increasing order
Increasing(log) ==
    \A i \in 1..(Len(log) - 1) : log[i][1] < log[i + 1][1]

\* C8: an append to a full log removes exactly the oldest entry and puts
\* the new sample last, and (dt > 0) the timestamps stay increasing.
C8_EvictionIsFifo ==
    [][(call'.op = "sim_step" /\ step_count' % LOG_EVERY = 0)
         => /\ (Len(logged_states) = HISTORY_CAP
                 => logged_states' =
                      Append(Tail(logged_states),
                             <<sim_time', GetState(quad')>>))
            /\ (Len(logged_states) < HISTORY_CAP
                 => logged_states' =
                      Append(logged_states, <<sim_time', GetState(quad')>>))
            /\ Increasing(logged_states')]_vars

\* a step has evicted the oldest sample (the first is no longer the first
\* of the warm-up) and appended one taken away from hover
C8_Evicted ==
    /\ call.op = "sim_step"
    /\ Len(logged_states) = HISTORY_CAP
    /\ logged_states[1][1] > LOG_EVERY * WarmDt
    /\ logged_states[HISTORY_CAP][2] # GetState(HoverQuad)

\* C11: QuadcopterSimulator.reset, called in any state, puts the vehicle back
\* at (0, 0, 2.5) at rest and level, leaves the four PIDs with integral 0,
\* prev_error 0, filtered_derivative 0 and first_call set, zeroes step_count
\* and sim_time and empties the log.
C11_SimResetClearsAll ==
    [][call'.op = "sim_reset" =>
         /\ Kinematic(GetState(quad')) = <<0, 0, Z0, 0, 0, 0, 0, 0, 0, 0, 0, 0>>
         /\ \A k \in {"alt_pid", "roll_pid", "pitch_pid", "yaw_pid"} :
               /\ ctrl'[k].integral = 0
               /\ ctrl'[k].prev_error = 0
               /\ ctrl'[k].filtered_derivative = 0
               /\ ctrl'[k].first_call
         /\ step_count' = 0
         /\ sim_time' = 0
         /\ logged_states' = <<>>]_vars

\* reset has been called on a simulator that has flown a commanded roll:
\* the controls of the last step are still stored
C11_ResetAfterFlight ==
    /\ call.op = "sim_reset"
    /\ ops >= 5
    /\ quad.torque_roll # 0 /\ quad.thrust > MASS * G
    /\ ctrl = CtrlInit /\ logged_states = <<>>

---------------------------------------------------------------------------
(* A PID of its own, constructed with one of several parameter sets and
   driven through update and reset *)

\* number of calls explored
MaxPidOps == 4

\* PID(kp, ki, kd) with the defaults integrator_limit = None and
\* derivative_filter_tau = 0.0
PlainPid ==
    [kp |-> 1000, ki |-> 100, kd |-> 500, limited |-> FALSE,
     integrator_limit |-> 0, derivative_filter_tau |-> 0]

\* the parameter sets: the altitude and the roll PID of the
\* CascadedController and a PID with neither limit nor filter
PidCfgs == {AltPid, RollPid, PlainPid}

\* error given to PID.update (mm or mrad)
PidErrors == {-400, 300}

\* dt given to PID.update (ms): two usual steps, zero, and the negative of
\* the altitude PID's derivative_filter_tau
PidDts == {-20, 0, 50, 200}

InitPid ==
    /\ quad = QuadInit
    /\ ctrl = CtrlInit
    /\ z_ref = Z0
    /\ roll_ref = 0
    /\ pitch_ref = 0
    /\ yaw_ref = 0
    /\ sim_time = 0
    /\ step_count = 0
    /\ logged_states = <<>>
    /\ \E cfg \in PidCfgs : pid = [cfg |-> cfg, st |-> PIDInit]
    /\ held = Snapshot(QuadInit)
    /\ fresh = NewSimulator
    /\ call = [op |-> "init", dt |-> 0, thrust |-> 0, raised |-> FALSE]
    /\ ops = 0

\* pid.update(error, dt); the call records the arguments, whether this was
\* a first call, the integral before it, what was returned and the
\* derivative term in it
PidUpdateCall(error, dt) ==
    /\ LET u == PIDUpdate(pid.cfg, pid.st, error, dt)
       IN  /\ pid' = [pid EXCEPT !.st = u.st]
           /\ call' = [op |-> "pid_update", dt |-> dt, thrust |-> 0,
                       raised |-> u.raised, error |-> error,
                       first |-> pid.st.first_call,
                       integral_before |-> pid.st.integral,
                       out |-> u.out, d_term |-> u.d_term]
    /\ ops' = ops + 1
    /\ UNCHANGED <<quad, held, fresh>>
    /\ UNCHANGED simvars

\* pid.reset()
PidResetCall ==
    /\ pid' = [pid EXCEPT !.st = PIDReset(pid.st)]
    /\ call' = [op |-> "pid_reset", dt |-> 0, thrust |-> 0, raised |-> FALSE]
    /\ ops' = ops + 1
    /\ UNCHANGED <<quad, held, fresh>>
    /\ UNCHANGED simvars

PidUpdate(error, dt) == ops < MaxPidOps /\ PidUpdateCall(error, dt)

PidReset == ops < MaxPidOps /\ PidResetCall

NextPid ==
    \/ \E error \in PidErrors, dt \in PidDts : PidUpdate(error, dt)
    \/ PidReset

SpecPid == InitPid /\ [][NextPid]_vars

\* C12: the first update after construction or after reset returns
\* kp * error + ki * integral, with a derivative term of zero whatever kd,
\* error and dt are, raises nothing and clears first_call.
C12_FirstUpdateHasNoDerivative ==
    [][(call'.op = "pid_update" /\ pid.st.first_call) =>
         /\ ~call'.raised
         /\ call'.d_term = 0
         /\ call'.out = pid.cfg.kp * call'.error
                          + RDiv(pid.cfg.ki * pid'.st.integral, MS)
         /\ ~pid'.st.first_call]_vars

\* a first update that came after an update and a reset, with kd # 0, a
\* nonzero error and dt > 0
C12_FirstAfterReset ==
    /\ call.op = "pid_update"
    /\ call.first
    /\ ops >= 3
    /\ pid.cfg.kd # 0
    /\ call.error # 0 /\ call.dt > 0
    /\ call.d_term = 0
    /\ call.out # 0

\* C13: with an integrator_limit L configured, |integral| <= L after every
\* update, whatever the errors and time steps; an integral at L stays at L
\* under a further positive error (dt > 0), one at -L under a negative one.
C13_IntegralWithinLimit ==
    [][(call'.op = "pid_update" /\ pid.cfg.limited) =>
         /\ Abs(pid'.st.integral) <= pid.cfg.integrator_limit
         /\ (pid.st.integral = pid.cfg.integrator_limit
               /\ call'.error > 0 /\ call'.dt > 0)
              => pid'.st.integral = pid.cfg.integrator_limit
         /\ (pid.st.integral = -pid.cfg.integrator_limit
               /\ call'.error < 0 /\ call'.dt > 0)
              => pid'.st.integral = -pid.cfg.integrator_limit]_vars

\* an update with a negative error and dt > 0 has found the integral at
\* the lower limit and left it there
C13_HeldAtLimit ==
    /\ call.op = "pid_update"
    /\ pid.cfg.limited
    /\ call.integral_before = -pid.cfg.integrator_limit
    /\ call.error < 0 /\ call.dt > 0
    /\ pid.st.integral = -pid.cfg.integrator_limit

\* C14: an update that is not the first and has dt <= 0 raises nothing and
\* has a derivative term of zero, also with derivative_filter_tau > 0 and
\* a nonzero filtered derivative from the calls before.
C14_DegenerateDtNoDerivative ==
    [][(call'.op = "pid_update" /\ ~pid.st.first_call /\ call'.dt <= 0) =>
         /\ ~call'.raised
         /\ call'.d_term = 0]_vars

\* C14, the two ways it fails: an update with dt = 0 returns a derivative
\* term of kd * filtered_derivative # 0 ...
C14_ZeroDtKeepsFilteredDerivative ==
    /\ call.op = "pid_update"
    /\ ~call.first /\ call.dt = 0 /\ ~call.raised
    /\ pid.cfg.derivative_filter_tau > 0
    /\ call.d_term # 0

\* ... and an update with dt = -derivative_filter_tau raises
\* ZeroDivisionError
C14_MinusTauRaises ==
    /\ call.op = "pid_update"
    /\ ~call.first /\ call.dt < 0
    /\ call.raised

---------------------------------------------------------------------------
(* A Quadcopter constructed with any parameters and stepped with any dt *)

\* number of calls explored
MaxBuildOps == 4

\* (mass, Ixx, Iyy, Izz) given to Quadcopter(...): the defaults, another
\* valid set, and sets with a zero or negative mass or inertia
Builds ==
    { <<1, 10, 10, 20>>,
      <<2, 5, 10, 40>>,
      <<0, 10, 10, 20>>,
      <<-1, 10, 10, 20>>,
      <<1, 0, 10, 20>>,
      <<1, 10, -10, 20>> }

\* (torque_roll, torque_pitch, torque_yaw, thrust) given to set_control
BuildControls ==
    { <<0, 0, 0, 0>>,
      <<20000, -10000, 30000, 15000>>,
      <<-5000, 20000, 0, 9810>> }

\* dt given to Quadcopter.step (ms), negative and zero included
BuildDts == {-50, 0, 50, 200}

InitBuild ==
    /\ \E b \in Builds : quad = Quadcopter(b[1], b[2], b[3], b[4])
    /\ ctrl = CtrlInit
    /\ z_ref = Z0
    /\ roll_ref = 0
    /\ pitch_ref = 0
    /\ yaw_ref = 0
    /\ sim_time = 0
    /\ step_count = 0
    /\ logged_states = <<>>
    /\ pid = [cfg |-> AltPid, st |-> PIDInit]
    /\ held = Snapshot(QuadInit)
    /\ fresh = NewSimulator
    /\ call = [op |-> "init", dt |-> 0, thrust |-> 0, raised |-> FALSE]
    /\ ops = 0

\* quad.step(dt) on an instance of any parameters
BuildStepCall(dt) ==
    /\ quad' = QuadStep(quad, dt).quad
    /\ call' = [op |-> "step", dt |-> dt, thrust |-> 0,
                raised |-> QuadStep(quad, dt).raised]
    /\ ops' = ops + 1
    /\ UNCHANGED simvars
    /\ UNCHANGED <<pid, held, fresh>>

BuildSetControl(c) == ops < MaxBuildOps /\ SetControlCall(c)

BuildStep(dt) == ops < MaxBuildOps /\ BuildStepCall(dt)

NextBuild ==
    \/ \E c \in BuildControls : BuildSetControl(c)
    \/ \E dt \in BuildDts : BuildStep(dt)

SpecBuild == InitBuild /\ [][NextBuild]_vars

\* C15: Quadcopter.step with dt <= 0 fails or leaves the state as it was.
C15_NonPositiveDtRejected ==
    [][(call'.op = "step" /\ call'.dt <= 0) =>
         (call'.raised \/ GetState(quad') = GetState(quad))]_vars

\* C15, how it fails: a step with dt < 0 on a Quadcopter of the default
\* parameters, thrust off, has returned normally with an upward velocity
C15_SteppedBackwards ==
    /\ call.op = "step" /\ call.dt < 0 /\ ~call.raised
    /\ quad.mass = MASS /\ quad.thrust = 0
    /\ quad.vz > 0

\* C16: no Quadcopter with a non-positive mass or moment of inertia exists
\* on which step is called: construction has refused it.
C16_NonPositiveParametersRefused ==
    [][call'.op = "step" =>
         (quad.mass > 0 /\ quad.Ix > 0 /\ quad.Iy > 0 /\ quad.Iz > 0)]_vars

\* C16, how it fails: a Quadcopter of negative mass has been constructed
\* and stepped without an error
C16_NegativeMassStepped ==
    /\ call.op = "step" /\ ~call.raised
    /\ quad.mass < 0

\* C19: whenever step gets as far as the rates (no inertia is zero), each
\* rate changes by its own torque / inertia * dt and by nothing else: p by
\* torque_roll / Ix * dt, q by torque_pitch / Iy * dt, r by
\* torque_yaw / Iz * dt; from zero rates these are the rates after the step.
C19_RatesLinearUncoupled ==
    [][(call'.op = "step" /\ quad.Ix # 0 /\ quad.Iy # 0 /\ quad.Iz # 0) =>
         /\ quad'.p = quad.p + TimesDt(RDiv(quad.torque_roll, quad.Ix), call'.dt)
         /\ quad'.q = quad.q + TimesDt(RDiv(quad.torque_pitch, quad.Iy), call'.dt)
         /\ quad'.r = quad.r + TimesDt(RDiv(quad.torque_yaw, quad.Iz), call'.dt)]_vars

\* a step of a vehicle with three different inertias, all three torques
\* set and all three rates and angles already away from zero
C19_AllAxesTurning ==
    /\ call.op = "step" /\ ~call.raised /\ call.dt > 0
    /\ ops >= 3
    /\ quad.Ix # quad.Iy /\ quad.Iy # quad.Iz
    /\ quad.torque_roll # 0 /\ quad.torque_pitch # 0 /\ quad.torque_yaw # 0
    /\ quad.p # 0 /\ quad.q # 0 /\ quad.r # 0
    /\ Abs(quad.roll) > 100 /\ Abs(quad.pitch) > 100 /\ Abs(quad.yaw) > 100

---------------------------------------------------------------------------
(* A simulator that is stepped and looked at: a caller takes snapshots with
   get_state and keeps the last one, and reads get_extended_state *)

\* number of calls explored
MaxViewOps == 7

\* setpoints given to set_references
ViewRefs == { <<300, -300, 3000, 5000>> }

\* dt given to QuadcopterSimulator.step (ms)
ViewDts == {50, 200}

\* state = simulator.quad.get_state(): the caller keeps the returned dict
GetStateCall ==
    /\ held' = Snapshot(quad)
    /\ call' = [op |-> "get_state", dt |-> 0, thrust |-> 0, raised |-> FALSE]
    /\ ops' = ops + 1
    /\ UNCHANGED <<quad, pid, fresh>>
    /\ UNCHANGED simvars

\* simulator.get_extended_state(): the call records what was returned
GetExtendedStateCall ==
    /\ call' = [op |-> "get_extended_state", dt |-> 0, thrust |-> 0,
                raised |-> FALSE,
                ret |-> ExtendedState(quad, z_ref, roll_ref, pitch_ref,
                                      yaw_ref, sim_time, step_count)]
    /\ ops' = ops + 1
    /\ UNCHANGED <<quad, pid, held, fresh>>
    /\ UNCHANGED simvars

ViewSetReferences(r) == ops < MaxViewOps /\ SetReferencesCall(r)

ViewStep(dt) == ops < MaxViewOps /\ SimStepCall(dt)

ViewReset == ops < MaxViewOps /\ SimResetCall

ViewGetState == ops < MaxViewOps /\ GetStateCall

ViewGetExtendedState == ops < MaxViewOps /\ GetExtendedStateCall

NextView ==
    \/ \E r \in ViewRefs : ViewSetReferences(r)
    \/ \E dt \in ViewDts : ViewStep(dt)
    \/ ViewReset
    \/ ViewGetState
    \/ ViewGetExtendedState

SpecView == Init /\ [][NextView]_vars

\* the keys of the dict returned by get_extended_state
ExtendedKeys ==
    DOMAIN GetState(QuadInit) \cup
        {"z_ref", "roll_ref", "pitch_ref", "yaw_ref",
         "z_err", "roll_err", "pitch_err", "yaw_err", "sim_time", "step_count"}

\* C17: get_extended_state changes nothing - vehicle, setpoints, PIDs,
\* step_count, sim_time and log are as before - and returns the current
\* snapshot with the setpoints, the errors setpoint - actual for z, roll,
\* pitch and yaw, sim_time and step_count.
C17_ExtendedStateIsPureProjection ==
    [][call'.op = "get_extended_state" =>
         /\ quad' = quad /\ ctrl' = ctrl
         /\ <<z_ref', roll_ref', pitch_ref', yaw_ref'>>
              = <<z_ref, roll_ref, pitch_ref, yaw_ref>>
         /\ step_count' = step_count /\ sim_time' = sim_time
         /\ logged_states' = logged_states
         /\ DOMAIN call'.ret = ExtendedKeys
         /\ \A k \in DOMAIN GetState(quad) : call'.ret[k] = GetState(quad)[k]
         /\ call'.ret.z_ref = z_ref /\ call'.ret.z_err = z_ref - quad.z
         /\ call'.ret.roll_ref = roll_ref
         /\ call'.ret.roll_err = roll_ref - quad.roll
         /\ call'.ret.pitch_ref = pitch_ref
         /\ call'.ret.pitch_err = pitch_ref - quad.pitch
         /\ call'.ret.yaw_ref = yaw_ref
         /\ call'.ret.yaw_err = yaw_ref - quad.yaw
         /\ call'.ret.sim_time = sim_time
         /\ call'.ret.step_count = step_count]_vars

\* get_extended_state has been called on a simulator in flight, with all
\* four errors nonzero and the log not empty
C17_LookedInFlight ==
    /\ call.op = "get_extended_state"
    /\ ops >= 7
    /\ call.ret.z_err # 0 /\ call.ret.roll_err # 0
    /\ call.ret.pitch_err # 0 /\ call.ret.yaw_err # 0
    /\ call.ret.step_count >= LOG_EVERY
    /\ Len(logged_states) >= 1

\* the entries of log before are still in log after, unchanged and in
\* order, but for the oldest if it was evicted
LogKept(before, after) ==
    \E k \in {0, 1} :
        /\ Len(after) >= Len(before) - k
        /\ \A i \in 1..(Len(before) - k) : after[i] = before[i + k]

---------------------------------------------------------------------------
(* The hover scenario: a new simulator of the default parameters, the
   setpoints (0, 0, 0, 2.5), steps of 0.05 s *)

\* number of steps of the scenario
MaxHoverSteps == 50

\* (roll_ref, pitch_ref, yaw_ref, z_ref) of the scenario
HoverRefs == <<0, 0, 0, Z0>>

\* the setpoints may be given again at any time, up to once per step
HoverSetReferences ==
    /\ ops < 2 * MaxHoverSteps
    /\ call.op # "set_references"
    /\ SetReferencesCall(HoverRefs)

HoverStep == step_count < MaxHoverSteps /\ SimStepCall(WarmDt)

NextHover == HoverSetReferences \/ HoverStep

SpecHover == Init /\ [][NextHover]_vars

\* C20: in the hover scenario z stays within 0.1 m of 2.5 m and roll and
\* pitch within 0.01 rad of 0, after every step up to the 50th.
C20_HoverHoldsStation ==
    /\ Abs(quad.z - Z0) <= 100
    /\ Abs(quad.roll) <= 10
    /\ Abs(quad.pitch) <= 10

\* the last step of the scenario has been taken: thrust at mass * g, the
\* torques zero, 2.5 s on the clock
C20_HoveredToTheEnd ==
    /\ call.op = "sim_step" /\ ~call.raised
    /\ step_count = MaxHoverSteps
    /\ sim_time = MaxHoverSteps * WarmDt
    /\ quad.thrust = MASS * G
    /\ quad.torque_roll = 0 /\ quad.torque_pitch = 0 /\ quad.torque_yaw = 0

---------------------------------------------------------------------------
(* The altitude step response: a new simulator of the default parameters,
   the setpoints (0, 0, 0, 5.0) given before the first step, steps of
   0.05 s *)

\* number of steps of the scenario
MaxClimbSteps == 200

\* (roll_ref, pitch_ref, yaw_ref, z_ref) of the scenario
ClimbRefs == <<0, 0, 0, 5000>>

ClimbSetReferences == call.op = "init" /\ SetReferencesCall(ClimbRefs)

ClimbStep ==
    /\ call.op # "init"
    /\ step_count < MaxClimbSteps
    /\ SimStepCall(WarmDt)

NextClimb == ClimbSetReferences \/ ClimbStep

SpecClimb == Init /\ [][NextClimb]_vars

\* C21 as stated: every step brings z closer to z_ref (or leaves the
\* distance as it is), and z never exceeds z_ref by more than 10% of the
\* step of 2.5 m.
C21_ClimbApproachesMonotonically ==
    [][call'.op = "sim_step" =>
         /\ Abs(z_ref - quad'.z) <= Abs(z_ref - quad.z)
         /\ quad'.z <= z_ref + (z_ref - Z0) \div 10]_vars

\* C21 amended: below z_ref every step raises z; once at or above z_ref, z
\* never comes back below it and never exceeds it by more than 10% of the
\* step; |z_ref - z| < 0.05 m holds at step 28 - after which z climbs out of
\* that band on the upper side - and again at step 200.
C21_ClimbRisesOvershootsSettles ==
    [][call'.op = "sim_step" =>
         /\ (quad.z < z_ref => quad'.z > quad.z)
         /\ (quad.z >= z_ref => quad'.z >= z_ref)
         /\ quad'.z <= z_ref + (z_ref - Z0) \div 10
         /\ (step_count' = 28 => Abs(z_ref - quad'.z) < 50)
         /\ (step_count' >= 200 => Abs(z_ref - quad'.z) < 50)]_vars

\* the 200th step has been taken: z has been more than 0.2 m above z_ref
\* (the log holds the sample of step 44) and is now less than 0.05 m above
C21_SettledFromAbove ==
    /\ call.op = "sim_step"
    /\ step_count >= 200
    /\ quad.z > z_ref /\ quad.z - z_ref < 50
    /\ logged_states[11][2].z > z_ref + 200

---------------------------------------------------------------------------
(* Properties of QuadcopterSimulator.step and reset (SpecSim) *)

\* C22: a step computes thrust and torques from the snapshot of before the
\* integration and the current setpoints, updating each of the four PIDs
\* once (one error stored, one error * dt added to the integral); applies
\* them with set_control; integrates once; then adds 1 to step_count and dt
\* to sim_time; appends (sim_time, snapshot) to the log exactly if the new
\* step_count is a multiple of 4; and returns the snapshot of after the
\* integration, which carries the commands of this step.
C22_StepOrder ==
    [][(call'.op = "sim_step" /\ ~call'.raised) =>
         LET dt == call'.dt
             alt == UpdateAltitude(ctrl, z_ref, quad.z, quad.vz, dt)
             att == UpdateAttitude(ctrl, roll_ref, pitch_ref, yaw_ref,
                                   GetState(quad), dt)
         IN  /\ ctrl'.alt_pid.prev_error = (z_ref - quad.z) - RDiv(2 * quad.vz, 10)
             /\ ctrl'.roll_pid.prev_error = roll_ref - quad.roll
             /\ ctrl'.pitch_pid.prev_error = pitch_ref - quad.pitch
             /\ ctrl'.yaw_pid.prev_error = yaw_ref - quad.yaw
             /\ ctrl'.alt_pid.integral =
                    Integrated(AltPid, ctrl.alt_pid, ctrl'.alt_pid.prev_error, dt)
             /\ ctrl'.roll_pid.integral =
                    Integrated(RollPid, ctrl.roll_pid, roll_ref - quad.roll, dt)
             /\ ctrl'.pitch_pid.integral =
                    Integrated(PitchPid, ctrl.pitch_pid, pitch_ref - quad.pitch, dt)
             /\ ctrl'.yaw_pid.integral =
                    Integrated(YawPid, ctrl.yaw_pid, yaw_ref - quad.yaw, dt)
             /\ call'.thrust = alt.thrust
             /\ quad' = QuadStepped(QuadSetControl(quad, att.torque_roll,
                                                   att.torque_pitch,
                                                   att.torque_yaw, alt.thrust),
                                    dt)
             /\ step_count' = step_count + 1
             /\ sim_time' = sim_time + dt
             /\ IF step_count' % LOG_EVERY = 0
                THEN /\ LogKept(logged_states, logged_states')
                     /\ logged_states'[Len(logged_states')]
                          = <<sim_time', GetState(quad')>>
                ELSE logged_states' = logged_states
             /\ call'.ret = GetState(quad')
             /\ call'.ret.thrust = Max(0, alt.thrust)
             /\ call'.ret.torque_roll = att.torque_roll
             /\ call'.ret.torque_pitch = att.torque_pitch
             /\ call'.ret.torque_yaw = att.torque_yaw]_vars

\* a step away from hover has been logged: the fourth step since the
\* construction or the reset, with thrust and all three torques commanded
\* and the vehicle turned and moved by them
C22_LoggedStepInFlight ==
    /\ call.op = "sim_step" /\ ~call.raised
    /\ step_count = LOG_EVERY
    /\ Len(logged_states) = 1
    /\ logged_states[1] = <<sim_time, call.ret>>
    /\ call.ret.thrust > MASS * G
    /\ call.ret.torque_roll # 0 /\ call.ret.torque_pitch # 0
    /\ call.ret.torque_yaw # 0
    /\ call.ret.roll # 0 /\ call.ret.z > Z0

---------------------------------------------------------------------------
(* A simulator stepped with any dt: negative and zero steps included *)

\* number of calls explored
MaxTickOps == 4

\* setpoints given to set_references
TickRefs == { <<300, -300, 3000, 5000>> }

\* dt given to QuadcopterSimulator.step (ms): a usual step, zero, a negative
\* step, and the negative of the altitude PID's derivative_filter_tau
TickDts == {-50, -20, 0, 50}

TickSetReferences(r) == ops < MaxTickOps /\ SetReferencesCall(r)

TickStep(dt) == ops < MaxTickOps /\ SimStepCall(dt)

TickReset == ops < MaxTickOps /\ SimResetCall

NextTick ==
    \/ \E r \in TickRefs : TickSetReferences(r)
    \/ \E dt \in TickDts : TickStep(dt)
    \/ TickReset

SpecTick == Init /\ [][NextTick]_vars

\* C23: every step, whatever its dt, adds exactly 1 to step_count and does
\* not decrease sim_time.
C23_TickAdvances ==
    [][call'.op = "sim_step" =>
         /\ step_count' = step_count + 1
         /\ sim_time' >= sim_time]_vars

\* C23, the two ways it fails: a step with dt < 0 has returned normally
\* and left sim_time below zero ...
C23_ClockWentBack ==
    /\ call.op = "sim_step" /\ ~call.raised
    /\ call.dt < 0
    /\ sim_time < 0

\* ... and a step with dt = -derivative_filter_tau has raised in the
\* altitude PID and counted nothing
C23_StepRaised ==
    /\ call.op = "sim_step" /\ call.raised
    /\ step_count < ops

---------------------------------------------------------------------------
(* Saturation of roll and pitch (Spec) *)

\* C24: when the integrated roll or pitch lies outside
\* [-MAX_ANGLE, MAX_ANGLE] the angle is set to the limit on that side,
\* while p and q keep the values just integrated; and the force that changes
\* the velocities in this step is the thrust rotated by the angles of after
\* the clamp.
C24_SaturationFreezesAngleOnly ==
    [][call'.op = "step" =>
         LET dt == call'.dt
             rates == UpdateRates(quad, dt)
             raw == UpdateAngles(rates, dt)
             f == Force(quad')
         IN  /\ (raw.roll > MAX_ANGLE => quad'.roll = MAX_ANGLE)
             /\ (raw.roll < -MAX_ANGLE => quad'.roll = -MAX_ANGLE)
             /\ (raw.pitch > MAX_ANGLE => quad'.pitch = MAX_ANGLE)
             /\ (raw.pitch < -MAX_ANGLE => quad'.pitch = -MAX_ANGLE)
             /\ quad'.p = rates.p /\ quad'.q = rates.q
             /\ quad'.vx = LimitVel(quad.vx + TimesDt(RDiv(f.fx, quad.mass), dt))
             /\ quad'.vy = LimitVel(quad.vy + TimesDt(RDiv(f.fy, quad.mass), dt))
             /\ (quad'.z > 0 =>
                   quad'.vz = LimitVel(quad.vz
                                        + TimesDt(RDiv(f.fz, quad.mass), dt)))]_vars

\* a step under thrust has clamped roll at the lower and pitch at the upper
\* limit; both rates still point outwards, and the thrust has pushed the
\* vehicle sideways
C24_SaturatedUnderThrust ==
    /\ call.op = "step"
    /\ quad.thrust > 0
    /\ quad.roll = -MAX_ANGLE /\ quad.p < 0
    /\ quad.pitch = MAX_ANGLE /\ quad.q > 0
    /\ quad.vx # 0 /\ quad.vy # 0

---------------------------------------------------------------------------
(* The yaw error and the setpoints across reset (SpecSim) *)

\* C25: the error that a step gives to the yaw PID is yaw_ref - yaw as it
\* is, not reduced to the shorter way round; with yaw_ref and yaw both in
\* [-pi, pi] its magnitude is at most 2 pi, and it can exceed pi.
C25_YawErrorPlainDifference ==
    [][(call'.op = "sim_step" /\ ~call'.raised) =>
         /\ ctrl'.yaw_pid.prev_error = yaw_ref - quad.yaw
         /\ (Abs(yaw_ref) <= PI /\ Abs(quad.yaw) <= PI)
              => Abs(ctrl'.yaw_pid.prev_error) <= 2 * PI]_vars

\* a step has given the yaw PID an error of more than pi: yaw_ref is
\* inside [-pi, pi] and yaw had gone past pi and wrapped to the negative side
C25_YawErrorBeyondPi ==
    /\ call.op = "sim_step" /\ ~call.raised
    /\ Abs(yaw_ref) <= PI
    /\ ctrl.yaw_pid.prev_error > PI
    /\ yaw_ref - ctrl.yaw_pid.prev_error >= -PI

\* C26: reset leaves roll_ref, pitch_ref, yaw_ref and z_ref as they are:
\* the values last given to set_references, not the values of construction.
C26_ResetKeepsSetpoints ==
    [][call'.op = "sim_reset" =>
         <<roll_ref', pitch_ref', yaw_ref', z_ref'>>
           = <<roll_ref, pitch_ref, yaw_ref, z_ref>>]_vars

\* reset has been called with setpoints that differ from those of
\* construction in all four values, after the simulator has flown to them
C26_ResetWithSetpointsGiven ==
    /\ call.op = "sim_reset"
    /\ roll_ref # 0 /\ pitch_ref # 0 /\ yaw_ref # 0 /\ z_ref # Z0
    /\ quad.thrust > MASS * G /\ quad.torque_yaw # 0
    /\ step_count = 0

---------------------------------------------------------------------------
(* Two simulators side by side: one that has flown and is reset, and one
   constructed at the moment of that reset (fresh); from then on both get
   the same set_references and step calls, set_references first *)

\* number of calls explored
MaxTwinOps == 6

\* setpoints given to set_references
TwinRefs == { <<0, 0, 0, 2500>>, <<300, -300, 3000, 5000>> }

\* dt given to step (ms): a usual step and the negative of the altitude
\* PID's derivative_filter_tau, with which a step that is not the first raises
TwinDts == {50, -20}

\* the simulator has flown: set_references(0.3, -0.3, 3.0, 5.0) and
\* step(0.2) from construction
FlownSimulator ==
    WithStep(WithReferences(NewSimulator, <<300, -300, 3000, 5000>>),
             SimStepped(QuadInit, CtrlInit, 5000, 300, -300, 3000,
                        0, 0, <<>>, 200))

InitTwin ==
    /\ quad = FlownSimulator.quad
    /\ ctrl = FlownSimulator.ctrl
    /\ z_ref = FlownSimulator.z_ref
    /\ roll_ref = FlownSimulator.roll_ref
    /\ pitch_ref = FlownSimulator.pitch_ref
    /\ yaw_ref = FlownSimulator.yaw_ref
    /\ sim_time = FlownSimulator.sim_time
    /\ step_count = FlownSimulator.step_count
    /\ logged_states = FlownSimulator.logged_states
    /\ pid = [cfg |-> AltPid, st |-> PIDInit]
    /\ held = Snapshot(QuadInit)
    /\ fresh = NewSimulator
    /\ call = [op |-> "sim_step", dt |-> 200, thrust |-> 0,
               raised |-> FALSE, ret |-> FlownSimulator.ret]
    /\ ops = 0

\* set_references(r) on both simulators
TwinSetReferencesCall(r) ==
    /\ roll_ref' = r[1]
    /\ pitch_ref' = r[2]
    /\ yaw_ref' = r[3]
    /\ z_ref' = r[4]
    /\ fresh' = IF fresh.on THEN WithReferences(fresh, r) ELSE fresh
    /\ call' = [op |-> "set_references", dt |-> 0, thrust |-> 0,
                raised |-> FALSE]
    /\ ops' = ops + 1
    /\ UNCHANGED <<quad, ctrl, sim_time, step_count, logged_states>>
    /\ UNCHANGED <<pid, held>>

\* step(dt) on both simulators
TwinStepCall(dt) ==
    /\ LET n == SimStepped(quad, ctrl, z_ref, roll_ref, pitch_ref, yaw_ref,
                           sim_time, step_count, logged_states, dt)
       IN  /\ quad' = n.quad
           /\ ctrl' = n.ctrl
           /\ sim_time' = n.sim_time
           /\ step_count' = n.step_count
           /\ logged_states' = n.logged_states
           /\ call' = [op |-> "sim_step", dt |-> dt, thrust |-> n.thrust,
                       raised |-> n.raised, ret |-> GetState(n.quad)]
    /\ fresh' = IF fresh.on
                THEN WithStep(fresh,
                         SimStepped(fresh.quad, fresh.ctrl, fresh.z_ref,
                                    fresh.roll_ref, fresh.pitch_ref,
                                    fresh.yaw_ref, fresh.sim_time,
                                    fresh.step_count, fresh.logged_states, dt))
                ELSE fresh
    /\ ops' = ops + 1
    /\ UNCHANGED <<z_ref, roll_ref, pitch_ref, yaw_ref>>
    /\ UNCHANGED <<pid, held>>

\* reset() on the first simulator, while the second is constructed
TwinResetCall ==
    /\ quad' = QuadReset(quad)
    /\ ctrl' = CtrlReset(ctrl)
    /\ sim_time' = 0
    /\ step_count' = 0
    /\ logged_states' = <<>>
    /\ fresh' = [NewSimulator EXCEPT !.on = TRUE]
    /\ call' = [op |-> "sim_reset", dt |-> 0, thrust |-> 0, raised |-> FALSE]
    /\ ops' = ops + 1
    /\ UNCHANGED <<z_ref, roll_ref, pitch_ref, yaw_ref>>
    /\ UNCHANGED <<pid, held>>

TwinSetReferences(r) == ops < MaxTwinOps /\ TwinSetReferencesCall(r)

\* the calls that follow a reset start with set_references
TwinStep(dt) ==
    /\ ops < MaxTwinOps
    /\ call.op # "sim_reset"
    /\ TwinStepCall(dt)

TwinReset ==
    /\ ops < MaxTwinOps
    /\ call.op # "sim_reset"
    /\ TwinResetCall

NextTwin ==
    \/ \E r \in TwinRefs : TwinSetReferences(r)
    \/ \E dt \in TwinDts : TwinStep(dt)
    \/ TwinReset

SpecTwin == InitTwin /\ [][NextTwin]_vars

\* C27: after a reset and a set_references, the reset simulator and the
\* fresh one agree, call after call, on step_count, sim_time and the log,
\* and every step returns the same snapshot on both (or raises on both).
C27_ResetRunsLikeFresh ==
    (fresh.on /\ call.op # "sim_reset") =>
        /\ step_count = fresh.step_count
        /\ sim_time = fresh.sim_time
        /\ logged_states = fresh.logged_states
        /\ (call.op = "sim_step" =>
              /\ call.raised = fresh.raised
              /\ (~call.raised => call.ret = fresh.ret))

\* four steps have been taken since the reset, away from hover, and the
\* fourth has been logged on both simulators; the reset simulator had
\* controls stored at the reset that the fresh one never had
C27_FourStepsAfterReset ==
    /\ fresh.on
    /\ call.op = "sim_step" /\ ~call.raised
    /\ step_count = LOG_EVERY
    /\ Len(fresh.logged_states) = 1
    /\ fresh.ret.torque_yaw # 0 /\ fresh.ret.z # Z0

=============================================================================
